---- MODULE Spec2Model ----
(***************************************************************************)
(* Inventory stock reservation of the AirKicks store backend               *)
(* (InventoryService in src/src/services/paymentService.js, lines 389-912).*)
(*                                                                         *)
(* The service is one long-lived object shared by every request-handling   *)
(* task.  Every method is an async function: it runs synchronously up to   *)
(* its next await of an I/O call (cache get/setex/del, Product.findById,   *)
(* product.save) and is resumed later, so tasks interleave exactly at      *)
(* those awaits.  An action of this module is one such synchronous         *)
(* segment.  An I/O call takes effect, and a read takes its snapshot, when *)
(* the call is issued; the awaiting task sees the answer in its next       *)
(* segment.  A segment that touches nothing shared (building the result    *)
(* object, returning it to the awaiting caller) is folded into the         *)
(* segment that follows it.                                                *)
(***************************************************************************)
EXTENDS Integers, Sequences, FiniteSets, TLC

\* ------------------------------------------------------------------ bounds
MaxStock == 2       \* catalog stock at start is drawn from 0..MaxStock
MaxQty   == 2       \* requested quantities and update amounts go up to MaxQty
MaxTtl   == 1       \* reservation ttl, in seconds, is drawn from 1..MaxTtl
MaxOps   == 3       \* service calls made in one behaviour
MaxInFlight == 2    \* calls that are in flight at the same time
MaxBatch == 3       \* updates in one batchUpdateStock call
MaxTicks == 2       \* seconds the clock advances in one behaviour

\* ------------------------------------------------------------- JS values
Undefined == "undefined"     \* an option the caller did not pass

Max(a, b) == IF a >= b THEN a ELSE b
Min(a, b) == IF a <= b THEN a ELSE b

\* `size || 'any'`, `color || 'any'`: undefined and the empty string are
\* falsy and become 'any'; every other string is kept, 'any' included.
OrAny(x) == IF x = Undefined \/ x = "" THEN "any" ELSE x

\* ReservationKey without the size: every size of a product shares a key.
ReservationKeyNoSize(productId, size, color) == <<productId, "any", OrAny(color)>>

\* The reservation key `${productId}:${size || 'any'}:${color || 'any'}`.
\* The cache key is the same string behind the prefix "inventory:", so one
\* tuple indexes both maps.
ReservationKey(productId, size, color) == <<productId, OrAny(size), OrAny(color)>>

\* Number.prototype.toString of a non-negative integer: its decimal digits.
RECURSIVE toString(_)
toString(n) == IF n < 10 THEN <<n>> ELSE toString(n \div 10) \o <<n % 10>>

\* parseInt of a string of decimal digits.
RECURSIVE parseInt(_)
parseInt(s) ==
  IF Len(s) = 1 THEN s[1]
  ELSE 10 * parseInt(SubSeq(s, 1, Len(s) - 1)) + s[Len(s)]

\* ttl * 1000: seconds to milliseconds.
ToMillis(ttl) == ttl * 1000

\* ------------------------------------------------------------ input sets
ProductIds == {"p1"}
UnknownIds == {"p0"}          \* an id no document of the catalog has
CatalogIds == ProductIds \cup UnknownIds
Rids       == {"r1", "r2"}
Calls      == 1..MaxOps       \* the calls of a behaviour, in the order they are made
Qtys       == 1..MaxQty
Ttls       == 1..MaxTtl
Amounts    == (-1)..MaxQty
Operations == {"set", "add", "subtract"}
\* The options a caller passes: the base product, or a size.  Sizes "9" and
\* "10" are the variants of a product with variants, "11" is no variant.
BaseOpts   == {[size |-> Undefined, color |-> Undefined]}
VariantOpts == {[size |-> z, color |-> Undefined] : z \in {"9", "10"}}
\* A size together with the color of the variant of that size.
SizeColorOpts == {[size |-> "9", color |-> "black"]}
SizeOpts   == BaseOpts \cup VariantOpts \cup SizeColorOpts
                \cup {[size |-> "11", color |-> Undefined]}

AllKeys == {ReservationKey(p, o.size, o.color) : p \in CatalogIds, o \in SizeOpts}

\* ----------------------------------------------------------------- state
VARIABLES
  catalog,       \* Product collection: productId -> document (NoProduct: none)
  reservations,  \* this.reservations: key -> NoMap or the key's Map of reservations
  cache,         \* the cache store: key -> CacheMiss or the stored string
  timers,        \* pending setTimeout callbacks of reserveStock
  now,           \* Date.now(), in milliseconds
  pc,            \* per call: "new" (not made yet), the await it is suspended at, "done"
  loc,           \* per call: its arguments and local variables
  res,           \* per call: what it returned or threw
  events,        \* number of events emitted so far, per event name
  hist,          \* per reservationId: how often it was inserted, removed, replaced
  paths,         \* the expiry paths the runtime runs: "timer" callbacks, the periodic "sweep"
  faults         \* what may fail in this run: an event listener, a cache operation

vars == <<catalog, reservations, cache, timers, now, pc, loc, res, events, hist, paths, faults>>

\* ------------------------------------------------------- values and shapes
\* Product.findById answers null for an unknown id.
NoProduct == [exists |-> FALSE, isActive |-> FALSE, stock |-> 0,
              hasVariants |-> FALSE, variants |-> <<>>]

\* Map.get answers undefined for a key that was never set (or was deleted).
EmptyMap == [id \in {} |-> [quantity |-> 0, createdAt |-> 0, ttl |-> 0]]
NoMap == [present |-> FALSE, map |-> EmptyMap]

\* cache.get answers null on a miss; a stored string is never empty.
CacheMiss == <<>>

\* What a call returned or threw.  One shape for every method; a field the
\* method does not set keeps its value here (reserved = -1: no such field).
NoRes == [kind |-> "none", thrown |-> FALSE, success |-> FALSE, error |-> "",
          reason |-> "", available |-> FALSE, stock |-> 0, requested |-> 0,
          canFulfill |-> 0, reserved |-> -1, reservationId |-> "",
          quantity |-> 0, oldStock |-> 0, newStock |-> 0, key |-> <<>>,
          results |-> <<>>]

\* The object checkAvailability returns (reserved = -1, reason = "": the
\* object has no such field).
NoAvailability == [available |-> FALSE, stock |-> 0, requested |-> 0,
                   canFulfill |-> 0, reserved |-> -1, reason |-> ""]

\* Arguments and locals of a call in flight.
NoLoc == [op |-> "none", productId |-> "", quantity |-> 0, size |-> Undefined,
          color |-> Undefined, reservationId |-> "", ttl |-> 0, operation |-> "",
          cached |-> CacheMiss, product |-> NoProduct,
          availability |-> NoAvailability, oldStock |-> 0, newStock |-> 0,
          batch |-> FALSE, updates |-> <<>>, results |-> <<>>, failed |-> FALSE]

NoEvents == [stockReserved |-> 0, stockReleased |-> [r \in Rids |-> 0],
             stockUpdated |-> 0, lowStock |-> 0, outOfStock |-> 0]

\* ------------------------------------------------------------ the registry
\* Sum of the quantities of the reservations ids of map m.
RECURSIVE SumQuantity(_, _)
SumQuantity(m, ids) ==
  IF ids = {} THEN 0
  ELSE LET id == CHOOSE x \in ids : TRUE
       IN m[id].quantity + SumQuantity(m, ids \ {id})

\* `now > reservation.createdAt + reservation.ttl`
IsExpired(reservation, time) == time > reservation.createdAt + reservation.ttl

\* The reservations of a key that have not expired at the given time.
LiveIds(R, key, time) ==
  IF R[key].present THEN {id \in DOMAIN R[key].map : ~IsExpired(R[key].map[id], time)}
  ELSE {}

\* getReservedStock: the sum over the key's non-expired reservations; every
\* expired one met during the scan is deleted from the key's Map (the Map
\* itself stays, even when empty).
getReservedStock(R, key, time) ==
  IF ~R[key].present THEN [total |-> 0, reservations |-> R]
  ELSE LET m    == R[key].map
           live == LiveIds(R, key, time)
       IN [total        |-> SumQuantity(m, live),
           reservations |-> [R EXCEPT ![key].map = [id \in live |-> m[id]]]]

\* The reservationIds that are in registry R and no longer in registry R2.
DeletedIds(R, R2) ==
  UNION {DOMAIN R[k].map \ DOMAIN R2[k].map : k \in DOMAIN R}

\* ------------------------------------------------------------ the catalog
Falsy(x) == x = Undefined \/ x = ""

\* `(!size || v.size === size) && (!color || v.color === color)`
VariantMatches(v, size, color) ==
  (Falsy(size) \/ v.size = size) /\ (Falsy(color) \/ v.color = color)

\* Array.prototype.findIndex, 1-based; 0 stands for -1 (no match).
FindVariantIndex(variants, size, color) ==
  LET hits == {i \in 1..Len(variants) : VariantMatches(variants[i], size, color)}
  IN IF hits = {} THEN 0 ELSE CHOOSE i \in hits : \A j \in hits : i <= j

\* ------------------------------------------------------- checkAvailability
\* The cache-hit answer (lines 412-420): canFulfill is the cached stock.
CachedAvailability(cached, quantity) ==
  LET stock == parseInt(cached)
  IN [NoAvailability EXCEPT !.available = (stock >= quantity), !.stock = stock,
                            !.requested = quantity, !.canFulfill = stock]

\* The answers that report nothing available (lines 423-431, 443-451).
Unavailable(quantity, reason) ==
  [NoAvailability EXCEPT !.requested = quantity, !.reason = reason]

\* checkAvailability returning the object a to its caller.
CheckResult(a, key) ==
  [NoRes EXCEPT !.kind = "check", !.success = TRUE, !.key = key,
                !.available = a.available, !.stock = a.stock,
                !.requested = a.requested, !.canFulfill = a.canFulfill,
                !.reserved = a.reserved, !.reason = a.reason]

\* The cache-miss path after Product.findById answered `product` (lines
\* 423-467), at the given time with registry R.  `caches` says whether the answer
\* is written to the cache; `reservations` is the registry after the lazy
\* eviction of getReservedStock.
ComputeAvailability(product, quantity, size, color, key, R, time) ==
  IF ~product.exists \/ ~product.isActive
  THEN [caches |-> FALSE, reservations |-> R,
        ret |-> Unavailable(quantity, "Product not found or inactive")]
  ELSE
    LET wantsVariant == ~Falsy(size) \/ ~Falsy(color)
        idx == IF product.hasVariants
               THEN FindVariantIndex(product.variants, size, color) ELSE 0
    IN IF wantsVariant /\ idx = 0
       THEN [caches |-> FALSE, reservations |-> R,
             ret |-> Unavailable(quantity, "Variant not found")]
       ELSE
         LET availableStock  == IF wantsVariant THEN product.variants[idx].stock
                                ELSE product.stock
             scan            == getReservedStock(R, key, time)
             actualAvailable == Max(0, availableStock - scan.total)
         IN [caches |-> TRUE, reservations |-> scan.reservations,
             ret |-> [NoAvailability EXCEPT
                        !.available = (actualAvailable >= quantity),
                        !.stock = actualAvailable, !.requested = quantity,
                        !.canFulfill = Min(actualAvailable, quantity),
                        !.reserved = scan.total]]

\* --------------------------------------------------------------- initially
\* The service starts with an empty registry; the catalog and the cache are
\* external stores.  The catalog holds one active product without variants.
InitialProducts ==
  {[exists |-> TRUE, isActive |-> TRUE, stock |-> s, hasVariants |-> TRUE,
    variants |-> <<>>] : s \in 0..MaxStock}

\* An active product with the variants of size "9" and "10"; product.stock
\* is the sum of their stocks, as updateStock keeps it.
VariantProducts ==
  {[exists |-> TRUE, isActive |-> TRUE, stock |-> a + b, hasVariants |-> TRUE,
    variants |-> <<[size |-> "9", color |-> "black", stock |-> a],
                   [size |-> "10", color |-> "black", stock |-> b]>>] :
     a \in 0..MaxStock, b \in 0..MaxStock}

\* The state after construction, the catalog holding one of the given
\* documents under each product id and none under an unknown id.
InitWith(products) ==
  /\ catalog \in {[p \in CatalogIds |-> IF p \in ProductIds THEN f[p] ELSE NoProduct] :
                    f \in [ProductIds -> products]}
  /\ reservations = [k \in AllKeys |-> NoMap]
  /\ cache = [k \in AllKeys |-> CacheMiss]
  /\ timers = {}
  /\ now = 0
  /\ pc = [c \in Calls |-> "new"]
  /\ loc = [c \in Calls |-> NoLoc]
  /\ res = [c \in Calls |-> NoRes]
  /\ events = NoEvents
  /\ hist = [r \in Rids |-> [inserted |-> 0, removed |-> 0, replaced |-> 0]]

InitService == InitWith(InitialProducts)

\* The runtime runs the timer callbacks and the periodic sweep.
Init == InitService /\ paths = {"timer", "sweep"} /\ faults = {}

\* ------------------------------------------------------------ bookkeeping
Finish(c, r) ==
  /\ pc' = [pc EXCEPT ![c] = "done"]
  /\ loc' = [loc EXCEPT ![c] = NoLoc]
  /\ res' = [res EXCEPT ![c] = r]

Suspend(c, at, l) ==
  /\ pc' = [pc EXCEPT ![c] = at]
  /\ loc' = [loc EXCEPT ![c] = l]
  /\ UNCHANGED res

\* What may fail in a run.
FaultKinds == {"listener", "cacheGet", "cacheSetex", "cacheDel"}

\* Whether a cache operation of the given kind fails when it is issued: only
\* the kinds in `faults` can.  A cache operation that fails rejects its
\* promise and leaves the store as it was.
CacheFails(kind) == IF kind \in faults THEN BOOLEAN ELSE {FALSE}

\* Whether a listener of the event being emitted throws: emit() calls the
\* listeners synchronously, so the exception comes out of emit().
ListenerThrows == IF "listener" \in faults THEN BOOLEAN ELSE {FALSE}

\* What a method throws when an awaited cache operation rejected or a
\* listener threw: its catch block logs the error and rethrows it
\* (469-472, 532-535, 582-585, 691-694).
Rethrown(kind, error, key, reservationId) ==
  [NoRes EXCEPT !.kind = kind, !.thrown = TRUE, !.error = error, !.key = key,
                !.reservationId = reservationId]

InFlight == {c \in Calls : pc[c] \notin {"new", "done"}}

\* Call c is the next one to be made, and a task is free to make it.
CanCall(c) ==
  /\ pc[c] = "new"
  /\ \A d \in Calls : d < c => pc[d] # "new"
  /\ Cardinality(InFlight) < MaxInFlight

KeyOfCall(l) == ReservationKey(l.productId, l.size, l.color)

\* hist after reservationId is set in map m: an entry with that id is replaced.
Inserted(h, m, id) ==
  [h EXCEPT ![id].inserted = @ + 1,
            ![id].replaced = IF id \in DOMAIN m THEN @ + 1 ELSE @]
Removed(h, ids) == [id \in Rids |-> IF id \in ids
                                     THEN [h[id] EXCEPT !.removed = @ + 1] ELSE h[id]]

\* ------------------------------------------------------------ reserveStock
\* Lines 488-499: set the reservation under its id in the key's Map, creating
\* the Map when the key has none.  Map.set replaces an entry with that id.
insertReservation(R, key, reservationId, quantity, ttl, time) ==
  LET m   == R[key].map
      ids == DOMAIN m \cup {reservationId}
      new == [quantity |-> quantity, createdAt |-> time, ttl |-> ToMillis(ttl)]
  IN [R EXCEPT ![key] =
        [present |-> TRUE,
         map |-> [id \in ids |-> IF id = reservationId THEN new ELSE m[id]]]]

\* Lines 484-515, run once checkAvailability has answered `a`: throw when it
\* says unavailable; otherwise insert the reservation, schedule the cleanup
\* timer and issue the cache delete.
ReserveAfterCheck(c, a) ==
  LET l   == loc[c]
      key == KeyOfCall(l)
  IN IF ~a.available
     THEN /\ Finish(c, [NoRes EXCEPT !.kind = "reserve", !.thrown = TRUE,
                          !.error = "Insufficient stock", !.key = key,
                          !.stock = a.stock, !.requested = l.quantity,
                          !.reservationId = l.reservationId])
          /\ UNCHANGED <<reservations, cache, timers, hist>>
     ELSE /\ reservations' = insertReservation(reservations, key, l.reservationId,
                                               l.quantity, l.ttl, now)
          /\ timers' = timers \cup
               {[reservationId |-> l.reservationId, productId |-> l.productId,
                 size |-> l.size, color |-> l.color, at |-> now + ToMillis(l.ttl)]}
          /\ hist' = Inserted(hist, reservations[key].map, l.reservationId)
          /\ \E fails \in CacheFails("cacheDel") :
               /\ cache' = IF fails THEN cache ELSE [cache EXCEPT ![key] = CacheMiss]
               /\ Suspend(c, "rs_del", [l EXCEPT !.failed = fails])

\* ------------------------------------------------- calls of checkAvailability
\* checkAvailability (405-411) and reserveStock (478-483) up to the await of
\* cache.get: reserveStock calls checkAvailability before anything else.
CallCheckAvailability(c, productId, quantity, o) ==
  /\ CanCall(c)
  /\ \E fails \in CacheFails("cacheGet") :
       Suspend(c, "ca_get",
         [NoLoc EXCEPT !.op = "check", !.productId = productId, !.quantity = quantity,
                       !.size = o.size, !.color = o.color, !.failed = fails,
                       !.cached = IF fails THEN CacheMiss
                                  ELSE cache[ReservationKey(productId, o.size, o.color)]])
  /\ UNCHANGED <<catalog, reservations, cache, timers, now, events, hist, paths, faults>>

CallReserveStock(c, productId, quantity, o, ttl, reservationId) ==
  /\ CanCall(c)
  /\ \E fails \in CacheFails("cacheGet") :
       Suspend(c, "ca_get",
         [NoLoc EXCEPT !.op = "reserve", !.productId = productId, !.quantity = quantity,
                       !.size = o.size, !.color = o.color, !.ttl = ttl,
                       !.reservationId = reservationId, !.failed = fails,
                       !.cached = IF fails THEN CacheMiss
                                  ELSE cache[ReservationKey(productId, o.size, o.color)]])
  /\ UNCHANGED <<catalog, reservations, cache, timers, now, events, hist, paths, faults>>

\* After cache.get answered (412-422).  A rejected get throws into the catch
\* block, which rethrows.  A hit answers from the cached string:
\* checkAvailability returns, and a reserveStock that awaited it goes on with
\* that answer.  A miss issues Product.findById.
AfterCacheGet(c) ==
  /\ pc[c] = "ca_get"
  /\ LET l == loc[c] IN
     IF l.failed
     THEN /\ Finish(c, Rethrown(l.op, "Cache failure", KeyOfCall(l),
                                 l.reservationId))
          /\ UNCHANGED <<reservations, cache, timers, hist>>
     ELSE IF l.cached # CacheMiss
     THEN LET a == CachedAvailability(l.cached, l.quantity) IN
          IF l.op = "check"
          THEN Finish(c, CheckResult(a, KeyOfCall(l))) /\ UNCHANGED <<reservations, cache, timers, hist>>
          ELSE ReserveAfterCheck(c, a)
     ELSE /\ Suspend(c, "ca_find", [l EXCEPT !.product = catalog[l.productId]])
          /\ UNCHANGED <<reservations, cache, timers, hist>>
  /\ UNCHANGED <<catalog, now, events, paths, faults>>

\* After Product.findById answered (423-459): the early answers return at
\* once (and make an awaiting reserveStock throw); otherwise the reserved
\* stock is scanned, evicting what has expired, and cache.setex is issued.
AfterFindById(c) ==
  /\ pc[c] = "ca_find"
  /\ LET l == loc[c]
         key == KeyOfCall(l)
         a == ComputeAvailability(l.product, l.quantity, l.size, l.color, key,
                                  reservations, now)
     IN IF ~a.caches
        THEN /\ IF l.op = "check" THEN Finish(c, CheckResult(a.ret, key)) /\ UNCHANGED hist
                ELSE ReserveAfterCheck(c, a.ret)
             /\ UNCHANGED <<reservations, cache, timers>>
        ELSE /\ reservations' = a.reservations
             /\ hist' = Removed(hist, DeletedIds(reservations, a.reservations))
             /\ \E fails \in CacheFails("cacheSetex") :
                  /\ cache' = IF fails THEN cache
                              ELSE [cache EXCEPT ![key] = toString(a.ret.stock)]
                  /\ Suspend(c, "ca_setex", [l EXCEPT !.availability = a.ret,
                                                      !.failed = fails])
             /\ UNCHANGED timers
  /\ UNCHANGED <<catalog, now, events, paths, faults>>

\* After cache.setex answered (461-467, then 484-515 for reserveStock); a
\* rejected setex throws into the catch block, which rethrows.
AfterSetex(c) ==
  /\ pc[c] = "ca_setex"
  /\ IF loc[c].failed
     THEN /\ Finish(c, Rethrown(loc[c].op, "Cache failure",
                                 KeyOfCall(loc[c]), loc[c].reservationId))
          /\ UNCHANGED <<reservations, cache, timers, hist>>
     ELSE IF loc[c].op = "check"
     THEN /\ Finish(c, CheckResult(loc[c].availability, KeyOfCall(loc[c])))
          /\ UNCHANGED <<reservations, cache, timers, hist>>
     ELSE ReserveAfterCheck(c, loc[c].availability)
  /\ UNCHANGED <<catalog, now, events, paths, faults>>

\* After the cache.del of reserveStock answered (517-535).  A rejected del
\* throws before the emit; emit() calls the listeners of stockReserved
\* synchronously, so one that throws throws out of emit().  Either way the
\* catch block rethrows.
AfterReserveDel(c) ==
  /\ pc[c] = "rs_del"
  /\ LET l == loc[c] IN
     IF l.failed
     THEN /\ Finish(c, Rethrown("reserve", "Cache failure", KeyOfCall(l),
                                 l.reservationId))
          /\ UNCHANGED events
     ELSE /\ events' = [events EXCEPT !.stockReserved = @ + 1]
          /\ \E throws \in ListenerThrows :
               IF throws
               THEN Finish(c, Rethrown("reserve", "Listener failure", KeyOfCall(l),
                                       l.reservationId))
               ELSE Finish(c, [NoRes EXCEPT !.kind = "reserve", !.success = TRUE,
                                 !.key = KeyOfCall(l),
                                 !.reservationId = l.reservationId,
                                 !.quantity = l.quantity])
  /\ UNCHANGED <<catalog, reservations, cache, timers, now, hist, paths, faults>>

\* ------------------------------------------------------ releaseReservation
\* releaseReservation without the check of line 547: an id that is not in
\* the key's Map is released like one that is, with no quantity.
releaseReservationUnguarded(R, key, reservationId) ==
  IF ~R[key].present \/ reservationId \notin DOMAIN R[key].map
  THEN [found |-> TRUE, quantity |-> 0, reservations |-> R]
  ELSE LET m    == R[key].map
           rest == DOMAIN m \ {reservationId}
       IN [found |-> TRUE, quantity |-> m[reservationId].quantity,
           reservations |->
             [R EXCEPT ![key] = IF rest = {} THEN NoMap
                                ELSE [present |-> TRUE,
                                      map |-> [id \in rest |-> m[id]]]]]

\* releaseReservation without the delete of line 552: the reservation is
\* reported released and stays in the key's Map.
releaseReservationKeepsEntry(R, key, reservationId) ==
  IF ~R[key].present \/ reservationId \notin DOMAIN R[key].map
  THEN [found |-> FALSE, quantity |-> 0, reservations |-> R]
  ELSE [found |-> TRUE, quantity |-> R[key].map[reservationId].quantity,
        reservations |-> R]

\* Lines 544-557: look the reservation up under its key; when it is there,
\* delete it, and delete the key's Map when that leaves it empty.
releaseReservation(R, key, reservationId) ==
  IF ~R[key].present \/ reservationId \notin DOMAIN R[key].map
  THEN [found |-> FALSE, quantity |-> 0, reservations |-> R]
  ELSE LET m    == R[key].map
           rest == DOMAIN m \ {reservationId}
       IN [found |-> TRUE, quantity |-> m[reservationId].quantity,
           reservations |->
             [R EXCEPT ![key] = IF rest = {} THEN NoMap
                                ELSE [present |-> TRUE,
                                      map |-> [id \in rest |-> m[id]]]]]

\* releaseReservation up to the await of cache.del (541-567): not found
\* returns at once and touches nothing.
CallReleaseReservation(c, reservationId, productId, o) ==
  /\ CanCall(c)
  /\ LET key == ReservationKey(productId, o.size, o.color)
         r   == releaseReservation(reservations, key, reservationId)
     IN IF ~r.found
        THEN /\ Finish(c, [NoRes EXCEPT !.kind = "release", !.key = key,
                             !.reason = "Reservation not found",
                             !.reservationId = reservationId])
             /\ UNCHANGED <<reservations, cache, hist>>
        ELSE /\ reservations' = r.reservations
             /\ hist' = Removed(hist, {reservationId})
             /\ \E fails \in CacheFails("cacheDel") :
                  /\ cache' = IF fails THEN cache ELSE [cache EXCEPT ![key] = CacheMiss]
                  /\ Suspend(c, "rl_del",
                       [NoLoc EXCEPT !.op = "release", !.productId = productId,
                                     !.size = o.size, !.color = o.color,
                                     !.reservationId = reservationId,
                                     !.quantity = r.quantity, !.failed = fails])
  /\ UNCHANGED <<catalog, timers, now, events, paths, faults>>

\* After the cache.del of releaseReservation answered (569-585): as in
\* reserveStock, a rejected del or a throwing listener of stockReleased is
\* rethrown by the catch block.
AfterReleaseDel(c) ==
  /\ pc[c] = "rl_del"
  /\ LET l == loc[c] IN
     IF l.failed
     THEN /\ Finish(c, Rethrown("release", "Cache failure", KeyOfCall(l),
                                 l.reservationId))
          /\ UNCHANGED events
     ELSE /\ events' = [events EXCEPT !.stockReleased[l.reservationId] = @ + 1]
          /\ \E throws \in ListenerThrows :
               IF throws
               THEN Finish(c, Rethrown("release", "Listener failure", KeyOfCall(l),
                                       l.reservationId))
               ELSE Finish(c, [NoRes EXCEPT !.kind = "release", !.success = TRUE,
                                 !.key = KeyOfCall(l),
                                 !.reservationId = l.reservationId,
                                 !.quantity = l.quantity])
  /\ UNCHANGED <<catalog, reservations, cache, timers, now, hist, paths, faults>>

\* The callback of the timer reserveStock set (502-504) calls
\* releaseReservation with the reservationId, productId, size and color of
\* that reserveStock call.  Its segment after cache.del only emits
\* stockReleased and is folded in; nothing awaits the promise, so a rejected
\* del only skips the emit.
TimerFires(tm) ==
  /\ "timer" \in paths
  /\ tm \in timers
  /\ now >= tm.at
  /\ timers' = timers \ {tm}
  /\ LET key == ReservationKey(tm.productId, tm.size, tm.color)
         r   == releaseReservation(reservations, key, tm.reservationId)
     IN IF ~r.found
        THEN UNCHANGED <<reservations, cache, hist, events>>
        ELSE /\ reservations' = r.reservations
             /\ hist' = Removed(hist, {tm.reservationId})
             /\ \E fails \in CacheFails("cacheDel") :
                  /\ cache' = IF fails THEN cache ELSE [cache EXCEPT ![key] = CacheMiss]
                  /\ events' = IF fails THEN events
                               ELSE [events EXCEPT
                                       !.stockReleased[tm.reservationId] = @ + 1]
  /\ UNCHANGED <<catalog, now, pc, loc, res, paths, faults>>

\* ------------------------------------------------ cleanupExpiredReservations
\* cleanupExpiredReservations with the test of line 875 never true: nothing
\* is deleted.
cleanupDeletesNothing(R, time) == R

\* Lines 869-890, run by setInterval (897-899): delete every expired
\* reservation of every key, then every Map that is empty.
cleanupExpiredReservations(R, time) ==
  [k \in DOMAIN R |->
     IF ~R[k].present THEN NoMap
     ELSE LET live == LiveIds(R, k, time)
          IN IF live = {} THEN NoMap
             ELSE [present |-> TRUE, map |-> [id \in live |-> R[k].map[id]]]]

Sweep ==
  /\ "sweep" \in paths
  /\ \E k \in AllKeys : reservations[k].present
  /\ reservations' = cleanupExpiredReservations(reservations, now)
  /\ hist' = Removed(hist, DeletedIds(reservations, reservations'))
  /\ UNCHANGED <<catalog, cache, timers, now, pc, loc, res, events, paths, faults>>

\* ------------------------------------------------------------- environment
\* The clock advances by a second.
Tick ==
  /\ now < ToMillis(MaxTicks)
  /\ now' = now + ToMillis(1)
  /\ UNCHANGED <<catalog, reservations, cache, timers, pc, loc, res, events, hist, paths, faults>>

\* A cache entry written by setex (459) reaches its expiry and is dropped by
\* the cache store.
CacheExpires(k) ==
  /\ cache[k] # CacheMiss
  /\ cache' = [cache EXCEPT ![k] = CacheMiss]
  /\ UNCHANGED <<catalog, reservations, timers, now, pc, loc, res, events, hist, paths, faults>>

\* -------------------------------------------------------------- updateStock
lowStockThreshold == 10
outOfStockThreshold == 0

RECURSIVE SumVariantStock(_)
SumVariantStock(variants) ==
  IF variants = <<>> THEN 0 ELSE Head(variants).stock + SumVariantStock(Tail(variants))

\* The switch on `operation` (614-626, 637-649); its default case throws.
KnownOperation(operation) == operation \in {"set", "add", "subtract"}

\* NewStock with the subtraction of lines 622 and 645 not floored at 0.
NewStockUnfloored(operation, oldStock, quantity) ==
  CASE operation = "set"      -> quantity
    [] operation = "add"      -> oldStock + quantity
    [] operation = "subtract" -> oldStock - quantity

NewStock(operation, oldStock, quantity) ==
  CASE operation = "set"      -> quantity
    [] operation = "add"      -> oldStock + quantity
    [] operation = "subtract" -> Max(0, oldStock - quantity)

\* Lines 596-652 on the document Product.findById answered: what is thrown,
\* or the old and new stock and the document as it is handed to save().
\* A variant update on a document without a variants array reads
\* product.variants[undefined] and throws a TypeError.
updateStock(product, quantity, operation, size, color) ==
  LET fail(msg) == [thrown |-> TRUE, error |-> msg, oldStock |-> 0, newStock |-> 0,
                    product |-> product]
  IN
  IF ~product.exists THEN fail("Product not found")
  ELSE IF ~Falsy(size) \/ ~Falsy(color)
  THEN IF ~product.hasVariants THEN fail("TypeError")
       ELSE LET idx == FindVariantIndex(product.variants, size, color) IN
            IF idx = 0 THEN fail("Variant not found")
            ELSE LET old == product.variants[idx].stock
                     new == NewStock(operation, old, quantity)
                 IN IF ~KnownOperation(operation) THEN fail("Invalid operation")
                    ELSE LET vs == [product.variants EXCEPT ![idx].stock = new]
                         IN [thrown |-> FALSE, error |-> "", oldStock |-> old,
                             newStock |-> new,
                             product |-> [product EXCEPT !.variants = vs,
                                                         !.stock = SumVariantStock(vs)]]
  ELSE LET old == product.stock
           new == NewStock(operation, old, quantity)
       IN IF ~KnownOperation(operation) THEN fail("Invalid operation")
          ELSE [thrown |-> FALSE, error |-> "", oldStock |-> old, newStock |-> new,
                product |-> [product EXCEPT !.stock = new]]

\* checkStockAlerts with `<` for the `<=` of line 776.
checkStockAlertsStrict(product, size, color) ==
  LET idx == IF product.hasVariants
             THEN FindVariantIndex(product.variants, size, color) ELSE 0
      currentStock == IF ~Falsy(size) \/ ~Falsy(color)
                      THEN (IF idx = 0 THEN 0 ELSE product.variants[idx].stock)
                      ELSE product.stock
  IN IF currentStock < outOfStockThreshold THEN "outOfStock"
     ELSE IF currentStock <= lowStockThreshold THEN "lowStock"
     ELSE "none"

\* checkStockAlerts (763-794) on the saved document: which alert is emitted.
checkStockAlerts(product, size, color) ==
  LET idx == IF product.hasVariants
             THEN FindVariantIndex(product.variants, size, color) ELSE 0
      currentStock == IF ~Falsy(size) \/ ~Falsy(color)
                      THEN (IF idx = 0 THEN 0 ELSE product.variants[idx].stock)
                      ELSE product.stock
  IN IF currentStock <= outOfStockThreshold THEN "outOfStock"
     ELSE IF currentStock <= lowStockThreshold THEN "lowStock"
     ELSE "none"

\* batchUpdateStock (799-821) calls updateStock for the next of its updates,
\* which runs up to the await of Product.findById.
StartBatchItem(c, updates, results) ==
  LET u == updates[Len(results) + 1]
  IN Suspend(c, "us_find",
       [NoLoc EXCEPT !.op = "update", !.productId = u.productId,
                     !.quantity = u.quantity, !.operation = u.operation,
                     !.size = u.options.size, !.color = u.options.color,
                     !.product = catalog[u.productId],
                     !.batch = TRUE, !.updates = updates, !.results = results])

\* ReturnUpdate without the try/catch of lines 803-817: an update that
\* throws ends batchUpdateStock, which throws in its turn.
ReturnUpdateUncaught(c, r) ==
  LET l == loc[c]
      item == [success |-> r.success, error |-> r.error, oldStock |-> r.oldStock,
               newStock |-> r.newStock, productId |-> l.productId]
      results == Append(l.results, item)
  IN IF ~l.batch \/ r.thrown THEN Finish(c, r)
     ELSE IF Len(results) = Len(l.updates)
     THEN Finish(c, [NoRes EXCEPT !.kind = "batch", !.success = TRUE,
                                  !.results = results])
     ELSE StartBatchItem(c, l.updates, results)

\* updateStock returns or throws r.  A caller other than batchUpdateStock
\* gets r.  batchUpdateStock pushes {...result, productId} (810) or
\* {success: false, error: error.message, productId} (812-816), then goes on
\* with its next update, or returns the results after the last one (820).
ReturnUpdate(c, r) ==
  LET l == loc[c]
      item == [success |-> r.success, error |-> r.error, oldStock |-> r.oldStock,
               newStock |-> r.newStock, productId |-> l.productId]
      results == Append(l.results, item)
  IN IF ~l.batch THEN Finish(c, r)
     ELSE IF Len(results) = Len(l.updates)
     THEN Finish(c, [NoRes EXCEPT !.kind = "batch", !.success = TRUE,
                                  !.results = results])
     ELSE StartBatchItem(c, l.updates, results)

\* batchUpdateStock up to the first await (799-804).
CallBatchUpdateStock(c, updates) ==
  /\ CanCall(c)
  /\ IF updates = <<>>
     THEN Finish(c, [NoRes EXCEPT !.kind = "batch", !.success = TRUE])
     ELSE StartBatchItem(c, updates, <<>>)
  /\ UNCHANGED <<catalog, reservations, cache, timers, now, events, hist, paths, faults>>

\* updateStock up to the await of Product.findById (591-595).
CallUpdateStock(c, productId, quantity, operation, o) ==
  /\ CanCall(c)
  /\ Suspend(c, "us_find",
       [NoLoc EXCEPT !.op = "update", !.productId = productId, !.quantity = quantity,
                     !.operation = operation, !.size = o.size, !.color = o.color,
                     !.product = catalog[productId]])
  /\ UNCHANGED <<catalog, reservations, cache, timers, now, events, hist, paths, faults>>

\* After Product.findById answered (596-654): throw, or change the document
\* and issue save(), which writes the document to the catalog.
AfterUpdateFind(c) ==
  /\ pc[c] = "us_find"
  /\ LET l == loc[c]
         u == updateStock(l.product, l.quantity, l.operation, l.size, l.color)
     IN IF u.thrown
        THEN /\ ReturnUpdate(c, [NoRes EXCEPT !.kind = "update", !.thrown = TRUE,
                                   !.error = u.error, !.key = KeyOfCall(l)])
             /\ UNCHANGED catalog
        ELSE /\ catalog' = [catalog EXCEPT ![l.productId] = u.product]
             /\ Suspend(c, "us_save", [l EXCEPT !.product = u.product,
                                                !.oldStock = u.oldStock,
                                                !.newStock = u.newStock])
  /\ UNCHANGED <<reservations, cache, timers, now, events, hist, paths, faults>>

\* After save() answered (656-669): issue the cache delete.
AfterSave(c) ==
  /\ pc[c] = "us_save"
  /\ \E fails \in CacheFails("cacheDel") :
       /\ cache' = IF fails THEN cache
                   ELSE [cache EXCEPT ![KeyOfCall(loc[c])] = CacheMiss]
       /\ Suspend(c, "us_del", [loc[c] EXCEPT !.failed = fails])
  /\ UNCHANGED <<catalog, reservations, timers, now, events, hist, paths, faults>>

\* After the cache.del of updateStock answered (671-694): checkStockAlerts
\* emits its alert, then stockUpdated is emitted and the call returns.  A
\* rejected del throws before both; a listener that throws throws out of the
\* first emit() that calls one, the alert's when there is one, and
\* stockUpdated is then not emitted.  Either way the catch block rethrows.
AfterUpdateDel(c) ==
  /\ pc[c] = "us_del"
  /\ LET l == loc[c]
         alert == checkStockAlerts(l.product, l.size, l.color)
     IN IF l.failed
        THEN /\ ReturnUpdate(c, Rethrown("update", "Cache failure", KeyOfCall(l), ""))
             /\ UNCHANGED events
        ELSE \E throws \in ListenerThrows :
               /\ events' = [events EXCEPT
                     !.outOfStock = IF alert = "outOfStock" THEN @ + 1 ELSE @,
                     !.lowStock = IF alert = "lowStock" THEN @ + 1 ELSE @,
                     !.stockUpdated = IF throws /\ alert # "none" THEN @ ELSE @ + 1]
               /\ IF throws
                  THEN ReturnUpdate(c, Rethrown("update", "Listener failure",
                                                KeyOfCall(l), ""))
                  ELSE ReturnUpdate(c, [NoRes EXCEPT !.kind = "update",
                                          !.success = TRUE, !.key = KeyOfCall(l),
                                          !.oldStock = l.oldStock,
                                          !.newStock = l.newStock])
  /\ UNCHANGED <<catalog, reservations, cache, timers, now, hist, paths, faults>>

\* ----------------------------------------------------------- specification
\* The segments that resume a suspended checkAvailability, reserveStock or
\* releaseReservation, and those that resume an updateStock.
ResumeReservation(c) ==
  \/ AfterCacheGet(c)
  \/ AfterFindById(c)
  \/ AfterSetex(c)
  \/ AfterReserveDel(c)
  \/ AfterReleaseDel(c)

ResumeUpdate(c) ==
  \/ AfterUpdateFind(c)
  \/ AfterSave(c)
  \/ AfterUpdateDel(c)

\* Timers, the periodic sweep, the clock and the cache store run on their own.
Environment ==
  \/ \E tm \in timers : TimerFires(tm)
  \/ Sweep
  \/ Tick
  \/ \E k \in AllKeys : CacheExpires(k)

\* Spec: concurrent tasks check, reserve and release stock of the base
\* product key; up to MaxInFlight calls are in flight at once.
CallReservation(c) ==
  \/ \E p \in ProductIds, q \in Qtys, o \in BaseOpts :
       CallCheckAvailability(c, p, q, o)
  \/ \E p \in ProductIds, q \in Qtys, o \in BaseOpts, ttl \in Ttls, id \in Rids :
       CallReserveStock(c, p, q, o, ttl, id)
  \/ \E id \in Rids, p \in ProductIds, o \in BaseOpts :
       CallReleaseReservation(c, id, p, o)

Next ==
  \/ \E c \in Calls : CallReservation(c)
  \/ \E c \in Calls : ResumeReservation(c)
  \/ Environment

Spec == Init /\ [][Next]_vars

\* SpecSeq: one caller makes its calls one after the other (a call is made
\* only when no call is in flight) and also updates the stock; timers, the
\* sweep, the clock and the cache store still run between its awaits.
CallUpdate(c) ==
  \E p \in ProductIds, q \in Amounts, op \in Operations, o \in BaseOpts :
    CallUpdateStock(c, p, q, op, o)

NextSeq ==
  \/ \E c \in Calls : InFlight = {} /\ CallReservation(c)
  \/ \E c \in Calls : InFlight = {} /\ CallUpdate(c)
  \/ \E c \in Calls : ResumeReservation(c)
  \/ \E c \in Calls : ResumeUpdate(c)
  \/ Environment

SpecSeq == Init /\ [][NextSeq]_vars

\* SpecUpdate: concurrent tasks check and update the stock of the base
\* product key, up to MaxInFlight calls in flight at once; nothing is
\* reserved, so the clock, the timers and the sweep have nothing to do.
ResumeCheck(c) ==
  \/ AfterCacheGet(c)
  \/ AfterFindById(c)
  \/ AfterSetex(c)

NextUpdate ==
  \/ \E c \in Calls, p \in ProductIds, q \in Qtys, o \in BaseOpts :
       CallCheckAvailability(c, p, q, o)
  \/ \E c \in Calls : CallUpdate(c)
  \/ \E c \in Calls : ResumeCheck(c)
  \/ \E c \in Calls : ResumeUpdate(c)
  \/ \E k \in AllKeys : CacheExpires(k)

SpecUpdate == Init /\ [][NextUpdate]_vars

\* SpecVariant: one caller checks, reserves and releases stock of the two
\* variants of a product, one call after the other.
CallVariant(c) ==
  \/ \E p \in ProductIds, o \in VariantOpts :
       CallCheckAvailability(c, p, 1, o)
  \/ \E p \in ProductIds, q \in Qtys, o \in VariantOpts, ttl \in Ttls, id \in Rids :
       CallReserveStock(c, p, q, o, ttl, id)
  \/ \E id \in Rids, p \in ProductIds, o \in VariantOpts :
       CallReleaseReservation(c, id, p, o)

NextVariant ==
  \/ \E c \in Calls : InFlight = {} /\ CallVariant(c)
  \/ \E c \in Calls : ResumeReservation(c)
  \/ Environment

InitVariant == InitWith(VariantProducts) /\ paths = {"timer", "sweep"} /\ faults = {}

SpecVariant == InitVariant /\ [][NextVariant]_vars

\* SpecStock: one caller updates the stock of a product with or without
\* variants, by product or by variant, and checks availability in between,
\* one call after the other; nothing is reserved.  Some updates name an
\* unknown product, a size that is no variant, or an unknown operation.
FailingUpdates ==
  {[productId |-> "p0", quantity |-> 1, operation |-> "set", options |-> o] :
     o \in BaseOpts}
  \cup {[productId |-> "p1", quantity |-> 1, operation |-> "set",
         options |-> [size |-> "11", color |-> Undefined]]}
  \cup {[productId |-> "p1", quantity |-> 1, operation |-> "reset", options |-> o] :
          o \in BaseOpts}

CallStock(c) ==
  \/ \E p \in ProductIds, q \in Amounts, op \in Operations,
         o \in BaseOpts \cup VariantOpts :
       CallUpdateStock(c, p, q, op, o)
  \/ \E u \in FailingUpdates :
       CallUpdateStock(c, u.productId, u.quantity, u.operation, u.options)
  \/ \E p \in ProductIds, o \in BaseOpts \cup VariantOpts :
       CallCheckAvailability(c, p, 1, o)

NextStock ==
  \/ \E c \in Calls : InFlight = {} /\ CallStock(c)
  \/ \E c \in Calls : ResumeCheck(c)
  \/ \E c \in Calls : ResumeUpdate(c)
  \/ \E k \in AllKeys : CacheExpires(k)

InitStock == InitWith(InitialProducts \cup VariantProducts) /\ paths = {"timer", "sweep"} /\ faults = {}

SpecStock == InitStock /\ [][NextStock]_vars

\* SpecBatch: one batchUpdateStock call of up to MaxBatch updates of the
\* product's stock, some of which fail.
BatchUpdates ==
  {[productId |-> p, quantity |-> q, operation |-> op, options |-> o] :
     p \in ProductIds, q \in Qtys, op \in Operations, o \in BaseOpts}
  \cup FailingUpdates

Batches == UNION {[1..n -> BatchUpdates] : n \in 0..MaxBatch}

NextBatch ==
  \/ \E updates \in Batches : CallBatchUpdateStock(1, updates)
  \/ \E c \in Calls : ResumeUpdate(c)

SpecBatch == Init /\ [][NextBatch]_vars

\* SpecExpiry: one caller checks and reserves stock (MaxOps - 1 calls), and
\* never releases.
\* Only one of the two expiry paths runs: the timer callbacks, or the
\* periodic sweep (timers missed or cancelled).  The clock advances, and
\* goes on beyond MaxTicks while a reservation has yet to expire; a due
\* timer fires, the sweep comes round, and a cache entry reaches the end of
\* its 300 seconds.
CallExpiring(c) ==
  \/ \E p \in ProductIds, o \in BaseOpts :
       CallCheckAvailability(c, p, 1, o)
  \/ \E p \in ProductIds, q \in Qtys, o \in BaseOpts, ttl \in Ttls, id \in Rids :
       CallReserveStock(c, p, q, o, ttl, id)

ResumeExpiring(c) ==
  \/ AfterCacheGet(c)
  \/ AfterFindById(c)
  \/ AfterSetex(c)
  \/ AfterReserveDel(c)

TickOn ==
  /\ now >= ToMillis(MaxTicks)
  /\ \E k \in AllKeys : LiveIds(reservations, k, now) # {}
  /\ now' = now + ToMillis(1)
  /\ UNCHANGED <<catalog, reservations, cache, timers, pc, loc, res, events, hist, paths, faults>>

NextExpiry ==
  \/ \E c \in Calls : c < MaxOps /\ InFlight = {} /\ CallExpiring(c)
  \/ \E c \in Calls : ResumeExpiring(c)
  \/ Environment
  \/ TickOn

InitExpiry == InitService /\ paths \in {{"timer"}, {"sweep"}} /\ faults = {}

SpecExpiry ==
  /\ InitExpiry
  /\ [][NextExpiry]_vars
  /\ WF_vars(Tick)
  /\ WF_vars(TickOn)
  /\ WF_vars(\E tm \in timers : TimerFires(tm))
  /\ WF_vars(Sweep)
  /\ WF_vars(\E k \in AllKeys : CacheExpires(k))

\* SpecCatalog: one caller checks and reserves stock of a product that may
\* be unknown or inactive and of a size that is no variant, one call after
\* the other, while an administrator may deactivate the product.
InactiveProducts == {[d EXCEPT !.isActive = FALSE] : d \in InitialProducts}

\* The catalog's owner sets isActive of a product to false.
DeactivateProduct(p) ==
  /\ catalog[p].exists /\ catalog[p].isActive
  /\ catalog' = [catalog EXCEPT ![p].isActive = FALSE]
  /\ UNCHANGED <<reservations, cache, timers, now, pc, loc, res, events, hist, paths, faults>>

CatalogOpts == BaseOpts \cup {[size |-> "11", color |-> Undefined]}

CallCatalog(c) ==
  \/ \E p \in CatalogIds, o \in CatalogOpts :
       CallCheckAvailability(c, p, 1, o)
  \/ \E p \in CatalogIds, q \in Qtys, o \in CatalogOpts, ttl \in Ttls, id \in Rids :
       CallReserveStock(c, p, q, o, ttl, id)

NextCatalog ==
  \/ \E c \in Calls : InFlight = {} /\ CallCatalog(c)
  \/ \E c \in Calls : ResumeExpiring(c)
  \/ \E p \in ProductIds : DeactivateProduct(p)
  \/ Environment

InitCatalog ==
  InitWith(InitialProducts \cup InactiveProducts) /\ paths = {"timer", "sweep"} /\ faults = {}

SpecCatalog == InitCatalog /\ [][NextCatalog]_vars

\* SpecAlerts: one caller updates the stock of a product or of a variant,
\* one call after the other, by amounts on both sides of the two alert
\* thresholds; some updates fail.
AlertAmounts == {outOfStockThreshold, outOfStockThreshold + 1,
                 lowStockThreshold, lowStockThreshold + 1}

CallAlerts(c) ==
  \/ \E p \in ProductIds, q \in AlertAmounts, op \in Operations,
         o \in BaseOpts \cup {[size |-> "9", color |-> Undefined]} :
       CallUpdateStock(c, p, q, op, o)
  \/ \E u \in FailingUpdates :
       CallUpdateStock(c, u.productId, u.quantity, u.operation, u.options)

NextAlerts ==
  \/ \E c \in Calls : InFlight = {} /\ CallAlerts(c)
  \/ \E c \in Calls : ResumeUpdate(c)

SpecAlerts == InitStock /\ [][NextAlerts]_vars

\* SpecFaults: one caller checks, reserves, releases and updates the stock of
\* the base product key, alone or in a batch, one call after the other, in
\* a run where the listeners of the events, or one kind of cache operation,
\* may fail.  The timer callbacks run; the sweep does not.
FaultUpdates ==
  {[productId |-> p, quantity |-> 1, operation |-> op, options |-> o] :
     p \in ProductIds, op \in {"set", "subtract"}, o \in BaseOpts}

FaultBatches == {<<u, v>> : u \in FaultUpdates, v \in FaultUpdates}

CallFaults(c) ==
  \/ \E p \in ProductIds, o \in BaseOpts : CallCheckAvailability(c, p, 1, o)
  \/ \E p \in ProductIds, o \in BaseOpts, id \in Rids :
       CallReserveStock(c, p, 1, o, MaxTtl, id)
  \/ \E id \in Rids, p \in ProductIds, o \in BaseOpts :
       CallReleaseReservation(c, id, p, o)
  \/ \E u \in FaultUpdates :
       CallUpdateStock(c, u.productId, u.quantity, u.operation, u.options)
  \/ \E updates \in FaultBatches : CallBatchUpdateStock(c, updates)

NextFaults ==
  \/ \E c \in Calls : InFlight = {} /\ CallFaults(c)
  \/ \E c \in Calls : ResumeReservation(c)
  \/ \E c \in Calls : ResumeUpdate(c)
  \/ \E tm \in timers : TimerFires(tm)
  \/ Tick

InitFaults == InitService /\ paths = {"timer"} /\ faults \in {{k} : k \in FaultKinds}

SpecFaults == InitFaults /\ [][NextFaults]_vars

\* SpecLost: concurrent tasks add to the stock of the base product key, up
\* to MaxInFlight updateStock calls in flight at once.
NextLost ==
  \/ \E c \in Calls, p \in ProductIds, q \in Amounts, o \in BaseOpts :
       CallUpdateStock(c, p, q, "add", o)
  \/ \E c \in Calls : ResumeUpdate(c)

SpecLost == Init /\ [][NextLost]_vars

\* SpecTimer: one caller reserves and releases stock of the base product
\* key, one call after the other, with a ttl of MaxTtl or of LongTtl
\* seconds; the timer callbacks run, the sweep does not.
LongTtl == MaxTtl + 1

CallTimer(c) ==
  \/ \E p \in ProductIds, o \in BaseOpts, ttl \in {MaxTtl, LongTtl}, id \in Rids :
       CallReserveStock(c, p, 1, o, ttl, id)
  \/ \E id \in Rids, p \in ProductIds, o \in BaseOpts :
       CallReleaseReservation(c, id, p, o)

NextTimer ==
  \/ \E c \in Calls : InFlight = {} /\ CallTimer(c)
  \/ \E c \in Calls : ResumeReservation(c)
  \/ \E tm \in timers : TimerFires(tm)
  \/ Tick

InitTimer == InitService /\ paths = {"timer"} /\ faults = {}

SpecTimer == InitTimer /\ [][NextTimer]_vars

\* SpecFailing: one caller updates the stock of a product, one call after the
\* other, and checks availability in between; some updates fail.  The
\* product's document has an empty variants array or no variants array.
PlainProducts ==
  {[exists |-> TRUE, isActive |-> TRUE, stock |-> s, hasVariants |-> FALSE,
    variants |-> <<>>] : s \in 0..MaxStock}

CallFailing(c) ==
  \/ \E u \in FailingUpdates :
       CallUpdateStock(c, u.productId, u.quantity, u.operation, u.options)
  \/ \E p \in ProductIds, op \in Operations \cup {"reset"} :
       CallUpdateStock(c, p, 1, op, [size |-> "9", color |-> Undefined])
  \/ \E p \in ProductIds, q \in Qtys, op \in Operations, o \in BaseOpts :
       CallUpdateStock(c, p, q, op, o)
  \/ \E p \in ProductIds, o \in BaseOpts : CallCheckAvailability(c, p, 1, o)

NextFailing ==
  \/ \E c \in Calls : InFlight = {} /\ CallFailing(c)
  \/ \E c \in Calls : ResumeCheck(c)
  \/ \E c \in Calls : ResumeUpdate(c)

InitFailing ==
  InitWith(InitialProducts \cup PlainProducts) /\ paths = {"timer", "sweep"} /\ faults = {}

SpecFailing == InitFailing /\ [][NextFailing]_vars

\* SpecShared: one caller reserves stock of a product with variants, one
\* call after the other, under the base key, under the key of a size and
\* under the key of that size with its color: the last two name the same
\* variant.  The caller releases reservations; nothing expires.
SharedOpts == BaseOpts \cup {[size |-> "9", color |-> Undefined]} \cup SizeColorOpts

NextShared ==
  \/ \E c \in Calls, p \in ProductIds, q \in Qtys, o \in SharedOpts, id \in Rids :
       InFlight = {} /\ CallReserveStock(c, p, q, o, MaxTtl, id)
  \/ \E c \in Calls, id \in Rids, p \in ProductIds, o \in SharedOpts :
       InFlight = {} /\ CallReleaseReservation(c, id, p, o)
  \/ \E c \in Calls : ResumeReservation(c)

SpecShared == InitVariant /\ [][NextShared]_vars

\* ------------------------------------------------------------- createOrder
\* createOrder of orderController, for a cart that holds one item: quantity
\* units of a product.  Up to the await of Cart.findOne (15-21).
CallCreateOrder(c, productId, quantity) ==
  /\ CanCall(c)
  /\ Suspend(c, "co_cart",
       [NoLoc EXCEPT !.op = "order", !.productId = productId, !.quantity = quantity])
  /\ UNCHANGED <<catalog, reservations, cache, timers, now, events, hist, paths, faults>>

\* The cart was found (22-30): validateItems is called and awaits
\* populate('items.product') (Cart.js 164), which reads the product.
AfterCartFound(c) ==
  /\ pc[c] = "co_cart"
  /\ Suspend(c, "co_populate", [loc[c] EXCEPT !.product = catalog[loc[c].productId]])
  /\ UNCHANGED <<catalog, reservations, cache, timers, now, events, hist, paths, faults>>

\* validateItems on the populated item (Cart.js 166-189): the quantity the
\* item is left with, and whether the item is invalid.  An item of a missing
\* or inactive product is invalid; an item of more units than are in stock
\* is cut down to the stock, and is invalid when that leaves none.
validateItems(product, quantity) ==
  IF ~product.exists \/ ~product.isActive
  THEN [invalid |-> TRUE, quantity |-> quantity]
  ELSE IF product.stock < quantity
  THEN [invalid |-> Min(quantity, product.stock) = 0,
        quantity |-> Min(quantity, product.stock)]
  ELSE [invalid |-> FALSE, quantity |-> quantity]

\* After populate answered (Cart.js 166-189, then 31-100): an invalid item
\* answers 400; otherwise the order is priced, saved and processPayment
\* awaited.
AfterPopulate(c) ==
  /\ pc[c] = "co_populate"
  /\ LET l == loc[c]
         v == validateItems(l.product, l.quantity)
     IN IF v.invalid
        THEN Finish(c, [NoRes EXCEPT !.kind = "order",
                          !.reason = "Some items in your cart are no longer available",
                          !.quantity = v.quantity])
        ELSE Suspend(c, "co_pay", [l EXCEPT !.quantity = v.quantity])
  /\ UNCHANGED <<catalog, reservations, cache, timers, now, events, hist, paths, faults>>

\* After processPayment answered (115-135): a failed payment cancels the
\* order and answers 400; otherwise the order is confirmed and saved.
AfterPayment(c) ==
  /\ pc[c] = "co_pay"
  /\ \E paid \in BOOLEAN :
       IF paid THEN Suspend(c, "co_confirm", loc[c])
       ELSE Finish(c, [NoRes EXCEPT !.kind = "order",
                         !.reason = "Payment processing failed",
                         !.quantity = loc[c].quantity])
  /\ UNCHANGED <<catalog, reservations, cache, timers, now, events, hist, paths, faults>>

\* After the confirmed order was saved (137-175): findByIdAndUpdate with
\* $inc: {stock: -quantity} decrements the stored stock, whatever it is; the
\* cart is cleared and 201 answered.
AfterConfirm(c) ==
  /\ pc[c] = "co_confirm"
  /\ catalog' = [catalog EXCEPT ![loc[c].productId].stock =
                   IF catalog[loc[c].productId].exists THEN @ - loc[c].quantity ELSE @]
  /\ Finish(c, [NoRes EXCEPT !.kind = "order", !.success = TRUE,
                  !.quantity = loc[c].quantity])
  /\ UNCHANGED <<reservations, cache, timers, now, events, hist, paths, faults>>

\* SpecOrders: concurrent customers order the product, up to MaxInFlight
\* createOrder calls in flight at once.
ResumeOrder(c) ==
  \/ AfterCartFound(c)
  \/ AfterPopulate(c)
  \/ AfterPayment(c)
  \/ AfterConfirm(c)

NextOrders ==
  \/ \E c \in Calls, p \in ProductIds, q \in Qtys : CallCreateOrder(c, p, q)
  \/ \E c \in Calls : ResumeOrder(c)

SpecOrders == Init /\ [][NextOrders]_vars

\* ================================================================== claims
\* totalStock of the stock record a key resolves to (lines 433-442): the
\* matching variant's stock when a size or color is given, else product.stock.
TotalStock(product, size, color) ==
  IF ~Falsy(size) \/ ~Falsy(color)
  THEN LET idx == IF product.hasVariants
                  THEN FindVariantIndex(product.variants, size, color) ELSE 0
       IN IF idx = 0 THEN 0 ELSE product.variants[idx].stock
  ELSE product.stock

\* Sum of the quantities of the non-expired reservations of a key.
LiveSum(R, key, time) == SumQuantity(R[key].map, LiveIds(R, key, time))

BaseKey == ReservationKey("p1", Undefined, Undefined)

Made == {c \in Calls : pc[c] # "new"}

\* The step in which reserveStock call c inserts its reservation.
Admits(c) == pc[c] \in {"ca_get", "ca_setex"} /\ pc'[c] = "rs_del"

\* The step in which reserveStock call c admits or rejects.
Decides(c) ==
  /\ loc[c].op = "reserve"
  /\ pc[c] \in {"ca_get", "ca_find", "ca_setex"}
  /\ pc'[c] \in {"done", "rs_del"}

\* C1: reserveStock inserts a reservation of quantity q under a key only if,
\* in the state it is inserted in, q <= totalStock(key) minus the sum of the
\* key's non-expired reservations.
C1_AdmitsOnlyAvailable ==
  [][\A c \in Calls :
       Admits(c) =>
         loc[c].quantity <=
           TotalStock(catalog[loc[c].productId], loc[c].size, loc[c].color)
             - LiveSum(reservations, KeyOfCall(loc[c]), now)]_vars

\* C2: when K reserveStock calls with distinct reservationIds, each for one
\* unit of the same key with stock S and no other reservation, have all
\* returned (before any of them can expire), exactly min(K, S) succeeded and
\* the others were rejected for insufficient stock.
C2_AdmitsMinKS ==
  ( /\ Made # {}
    /\ now = 0
    /\ \A c \in Made :
         /\ pc[c] = "done"
         /\ res[c].kind = "reserve"
         /\ res[c].key = BaseKey
         /\ (IF res[c].success THEN res[c].quantity ELSE res[c].requested) = 1
    /\ \A c, d \in Made : c # d => res[c].reservationId # res[d].reservationId )
  => /\ Cardinality({c \in Made : res[c].success})
          = Min(Cardinality(Made), catalog["p1"].stock)
     /\ \A c \in Made : ~res[c].success => res[c].error = "Insufficient stock"

\* C3: the admission decision does not depend on the cache: a reserveStock
\* that got a cache hit decides as it would decide from the catalog and the
\* registry of the same state with no cache entry.
C3_DecisionIgnoresCache ==
  \A c \in Calls :
    (pc[c] = "ca_get" /\ loc[c].op = "reserve" /\ loc[c].cached # CacheMiss)
    => LET l == loc[c] IN
       CachedAvailability(l.cached, l.quantity).available
         = ComputeAvailability(catalog[l.productId], l.quantity, l.size, l.color,
                               KeyOfCall(l), reservations, now).ret.available

\* C9: a reserveStock whose reservationId is already in the key's Map fails
\* (with DuplicateReservation, unless the stock check already failed it) and
\* leaves the key's reservations as they are.
C9_DuplicateRejected ==
  [][\A c \in Calls :
       ( /\ Decides(c)
         /\ reservations[KeyOfCall(loc[c])].present
         /\ loc[c].reservationId \in DOMAIN reservations[KeyOfCall(loc[c])].map )
       => /\ pc'[c] = "done"
          /\ res'[c].thrown
          /\ res'[c].error \in {"DuplicateReservation", "Insufficient stock"}
          /\ reservations'[KeyOfCall(loc[c])] = reservations[KeyOfCall(loc[c])]]_vars

\* The stock a checkAvailability made in this state, and run without
\* interleaving, reports for a key.
ReportedFrom(cat, R, stored, time, productId, size, color) ==
  LET key == ReservationKey(productId, size, color)
  IN IF stored[key] # CacheMiss THEN CachedAvailability(stored[key], 1).stock
     ELSE ComputeAvailability(cat[productId], 1, size, color, key, R, time).ret.stock

ReportedStock(productId, size, color) ==
  ReportedFrom(catalog, reservations, cache, now, productId, size, color)

\* max(0, totalStock - sum of the non-expired reservations) of a key.
TrueAvailable(productId, size, color) ==
  Max(0, TotalStock(catalog[productId], size, color)
           - LiveSum(reservations, ReservationKey(productId, size, color), now))

\* C4: the stock a checkAvailability reports is within [0, totalStock] of
\* its key when it returns (calls made one after the other on one key).
C4_AvailableWithinTotal ==
  [][\A c \in Calls :
       (loc[c].op = "check" /\ pc[c] # "done" /\ pc'[c] = "done")
       => /\ 0 <= res'[c].stock
          /\ res'[c].stock <= TotalStock(catalog'[loc[c].productId],
                                         loc[c].size, loc[c].color)]_vars

\* A reserveStock and then a releaseReservation of the same id and key, made
\* in this state and run without interleaving: whether the reservation was
\* admitted, and the registry after the release.
RoundTrip(productId, o, quantity, reservationId, ttl) ==
  LET key == ReservationKey(productId, o.size, o.color)
      hit == cache[key] # CacheMiss
      miss == ComputeAvailability(catalog[productId], quantity, o.size, o.color,
                                  key, reservations, now)
      a == IF hit THEN CachedAvailability(cache[key], quantity) ELSE miss.ret
      R1 == IF hit THEN reservations ELSE miss.reservations
      R2 == insertReservation(R1, key, reservationId, quantity, ttl, now)
      rel == releaseReservation(R2, key, reservationId)
  IN [admitted |-> a.available,
      reservations |-> rel.reservations,
      reported |-> ComputeAvailability(catalog[productId], 1, o.size, o.color, key,
                                       rel.reservations, now).ret.stock]

\* Whether the key's Map holds a reservation with this id.
Holds(key, id) == reservations[key].present /\ id \in DOMAIN reservations[key].map

\* The non-expired reservations of a key.
LiveMap(R, key, time) == [id \in LiveIds(R, key, time) |-> R[key].map[id]]

\* C5: from any state in which no call is in flight, a successful
\* reserveStock under an id the key does not hold, followed at once by
\* releaseReservation of that id on the same key, restores the available
\* stock checkAvailability reports for the key and the key's non-expired
\* reservations.
C5_ReserveReleaseRoundTrip ==
  InFlight = {} =>
    \A p \in ProductIds, o \in BaseOpts, q \in Qtys, id \in Rids, ttl \in Ttls :
      LET rt == RoundTrip(p, o, q, id, ttl)
          key == ReservationKey(p, o.size, o.color)
      IN (rt.admitted /\ ~Holds(key, id)) =>
           /\ rt.reported = ReportedStock(p, o.size, o.color)
           /\ LiveMap(rt.reservations, key, now) = LiveMap(reservations, key, now)

\* The step in which releaseReservation is called as call c.
ReleaseCalled(c) ==
  /\ pc[c] = "new"
  /\ \/ pc'[c] = "done" /\ res'[c].kind = "release"
     \/ pc'[c] = "rl_del"

\* C7: releaseReservation of an id that is not in the key's Map (never
\* created, already released, or expired and evicted) returns the not-found
\* result without throwing and leaves the registry, the catalog, the cache,
\* the timers and the emitted events unchanged.
C7_ReleaseNotFoundIsNoop ==
  [][\A c \in Calls :
       ReleaseCalled(c) =>
         LET id  == IF pc'[c] = "done" THEN res'[c].reservationId
                    ELSE loc'[c].reservationId
             key == IF pc'[c] = "done" THEN res'[c].key ELSE KeyOfCall(loc'[c])
         IN (~reservations[key].present \/ id \notin DOMAIN reservations[key].map)
            => /\ pc'[c] = "done"
               /\ ~res'[c].thrown
               /\ ~res'[c].success
               /\ res'[c].reason = "Reservation not found"
               /\ UNCHANGED <<reservations, catalog, cache, timers, events, hist>>]_vars

\* A second releaseReservation of an id and key returned not found after a
\* first one had released the reservation.
C7_Witness ==
  \E c, d \in Calls :
    /\ d < c
    /\ pc[c] = "done" /\ pc[d] = "done"
    /\ res[d].kind = "release" /\ res[d].success
    /\ res[c].kind = "release" /\ ~res[c].success /\ ~res[c].thrown
    /\ res[c].reservationId = res[d].reservationId
    /\ res[c].key = res[d].key

\* Number of keys whose Map holds a reservation with this id.
Present(id) ==
  Cardinality({k \in AllKeys : reservations[k].present
                               /\ id \in DOMAIN reservations[k].map})

\* Calls of releaseReservation that removed this id and have yet to emit
\* stockReleased.
ReleasePending(id) ==
  Cardinality({c \in Calls : pc[c] = "rl_del" /\ loc[c].reservationId = id})

\* C8: however explicit release, the expiry timer, the sweep and lazy
\* eviction interleave, every inserted reservation leaves the registry at
\* most once (removals and replacements plus the entries still present equal
\* the insertions), and stockReleased is emitted at most once per removal.
C8_RemovedExactlyOnce ==
  \A id \in Rids :
    /\ hist[id].removed + hist[id].replaced + Present(id) = hist[id].inserted
    /\ events.stockReleased[id] + ReleasePending(id) <= hist[id].removed

\* An explicit release removed a reservation before its timer fired, and
\* the timer then fired and found nothing.
C8_Witness ==
  \E c \in Calls, id \in Rids :
    /\ pc[c] = "done"
    /\ res[c].kind = "release" /\ res[c].success /\ res[c].reservationId = id
    /\ hist[id].inserted = 1 /\ hist[id].removed = 1
    /\ events.stockReleased[id] = 1
    /\ timers = {}

LastMade == CHOOSE c \in Made : \A d \in Made : d <= c

\* C10: when a reserveStock, releaseReservation or updateStock on a key has
\* returned successfully, no call is in flight and no call was made since,
\* checkAvailability on that key reports max(0, totalStock - sum of the
\* non-expired reservations) of the catalog and registry as they are now.
\* Stated for the time before any reservation can have expired, so that a
\* difference is never one that the passing of time made.
C10_FreshAfterMutation ==
  (now = 0 /\ Made # {} /\ InFlight = {}
     /\ res[LastMade].success
     /\ res[LastMade].kind \in {"reserve", "release", "update"})
  => \A p \in ProductIds, o \in BaseOpts :
       res[LastMade].key = ReservationKey(p, o.size, o.color)
       => ReportedStock(p, o.size, o.color) = TrueAvailable(p, o.size, o.color)

\* C6: with no releaseReservation call at all, a reservation in the registry
\* is eventually out of it with checkAvailability reporting the true
\* available stock of its key, both when only the timers run and when only
\* the sweep runs.
C6_ExpiryReclaims ==
  \A id \in Rids :
    Holds(BaseKey, id)
      ~> (~Holds(BaseKey, id)
          /\ ReportedStock("p1", Undefined, Undefined)
               = TrueAvailable("p1", Undefined, Undefined))

\* Only the sweep ran, and it has evicted a reservation nobody released.
C6_WitnessSweep ==
  \E id \in Rids :
    /\ paths = {"sweep"}
    /\ hist[id].inserted = 1 /\ hist[id].removed = 1
    /\ ~Holds(BaseKey, id)
    /\ \A c \in Calls : pc[c] \in {"new", "done"} /\ res[c].kind # "check"
    /\ ReportedStock("p1", Undefined, Undefined) = catalog["p1"].stock
    /\ catalog["p1"].stock > 0

\* The step in which the periodic sweep removes a reservation: the only step
\* that removes entries with no call resuming and no timer consumed.
SweepRemoves(k) ==
  /\ DOMAIN reservations[k].map \ DOMAIN reservations'[k].map # {}
  /\ pc' = pc
  /\ timers' = timers

\* C11: whenever the sweep removes an expired reservation of a key, the
\* key's cache entry is deleted in the same step.
C11_SweepInvalidatesCache ==
  [][\A k \in AllKeys : SweepRemoves(k) => cache'[k] = CacheMiss]_vars

\* C12: updateStock on a key with stock s and amount n stores and returns
\* newStock = n for set, s + n for add and max(0, s - n) for subtract, with
\* oldStock = s; after an update of a variant the product's stock is the sum
\* of its variants' stocks.
C12_UpdateStockArithmetic ==
  [][\A c \in Calls :
       /\ (pc[c] = "us_find" /\ pc'[c] = "us_save") =>
            LET l == loc[c]
                s == TotalStock(catalog[l.productId], l.size, l.color)
                n == l.quantity
                expected == IF l.operation = "set" THEN n
                            ELSE IF l.operation = "add" THEN s + n
                            ELSE IF s - n > 0 THEN s - n ELSE 0
                stored == catalog'[l.productId]
            IN /\ loc'[c].oldStock = s
               /\ loc'[c].newStock = expected
               /\ TotalStock(stored, l.size, l.color) = expected
               /\ l.operation = "subtract" => TotalStock(stored, l.size, l.color) >= 0
               /\ ~Falsy(l.size) =>
                    stored.stock = stored.variants[1].stock + stored.variants[2].stock
       /\ (pc[c] = "us_del" /\ pc'[c] = "done") =>
            /\ res'[c].success
            /\ res'[c].oldStock = loc[c].oldStock
            /\ res'[c].newStock = loc[c].newStock]_vars

\* A subtract of more than a variant holds was stored as 0, the other
\* variant holding stock.
C12_Witness ==
  \E c \in Calls :
    /\ pc[c] = "us_save"
    /\ loc[c].operation = "subtract" /\ loc[c].size = "9"
    /\ loc[c].oldStock = 1 /\ loc[c].quantity = 2 /\ loc[c].newStock = 0
    /\ catalog["p1"].variants[1].stock = 0
    /\ catalog["p1"].variants[2].stock = 2
    /\ catalog["p1"].stock = 2

\* Whether updateStock has what it needs to apply update u to the catalog:
\* the product, the variant the options name, and a known operation.
Applicable(u, cat) ==
  /\ cat[u.productId].exists
  /\ u.operation \in {"set", "add", "subtract"}
  /\ (~Falsy(u.options.size) \/ ~Falsy(u.options.color)) =>
       \E i \in 1..Len(cat[u.productId].variants) :
         VariantMatches(cat[u.productId].variants[i], u.options.size, u.options.color)

\* The results batchUpdateStock call c has collected so far, or returned.
BatchResults(p, l, r, c) == IF p[c] = "done" THEN r[c].results ELSE l[c].results

\* C13: batchUpdateStock collects one result per update, in input order: an
\* update that can be applied gets a success result and its new stock is in
\* the catalog at that moment, one that cannot gets {success: false, error}
\* and leaves the catalog as the updates before it made it; the call
\* returns as many results as it was given updates.
C13_BatchIsolatesFailures ==
  [][\A c \in Calls :
       (loc[c].batch /\ pc[c] # "done") =>
         LET before == loc[c].results
             after  == BatchResults(pc', loc', res', c)
             u      == loc[c].updates[Len(before) + 1]
             item   == after[Len(after)]
         IN /\ Len(after) \in {Len(before), Len(before) + 1}
            /\ SubSeq(after, 1, Len(before)) = before
            /\ Len(after) = Len(before) + 1 =>
                 /\ item.productId = u.productId
                 /\ item.success = Applicable(u, catalog)
                 /\ item.success =>
                      TotalStock(catalog'[u.productId], u.options.size, u.options.color)
                        = item.newStock
                 /\ ~item.success => (item.error # "" /\ catalog' = catalog)
            /\ pc'[c] = "done" =>
                 (res'[c].kind = "batch" /\ Len(after) = Len(loc[c].updates))]_vars

\* A batch of a valid update, a failing one and another valid one returned
\* success, failure, success, and the catalog holds what the third stored.
C13_Witness ==
  \E c \in Calls :
    /\ pc[c] = "done" /\ res[c].kind = "batch"
    /\ Len(res[c].results) = 3
    /\ res[c].results[1].success /\ res[c].results[1].newStock = 2
    /\ ~res[c].results[2].success /\ res[c].results[2].error = "Product not found"
    /\ res[c].results[3].success /\ res[c].results[3].oldStock = 2
    /\ res[c].results[3].newStock = 1
    /\ catalog["p1"].stock = 1

\* C14: every result of checkAvailability(productId, q) has requested = q,
\* available = (stock >= q) and canFulfill = min(stock, q), served from the
\* cache or recomputed.
C14_ResultShape ==
  \A c \in Calls :
    (pc[c] = "done" /\ res[c].kind = "check") =>
      /\ res[c].requested \in Qtys
      /\ res[c].available = (res[c].stock >= res[c].requested)
      /\ res[c].canFulfill = IF res[c].stock <= res[c].requested
                              THEN res[c].stock ELSE res[c].requested

\* The step in which call c, a releaseReservation, removes a reservation.
Releases(c) == pc[c] = "new" /\ pc'[c] = "rl_del"

\* The options and product of the call that takes a step on slot c.
Acting(c) == IF pc[c] = "new" THEN loc'[c] ELSE loc[c]

\* C15: a reserveStock or releaseReservation on one variant changes neither
\* the reserved quantity nor the reported availability of any other
\* variant of the product; and a reserveStock of more units of a variant
\* than it has available is rejected for insufficient stock.
C15_VariantsIndependent ==
  [][\A c \in Calls :
       /\ (Admits(c) \/ Releases(c)) =>
            \A o \in VariantOpts :
              o.size # Acting(c).size =>
                LET p == Acting(c).productId
                    k == ReservationKey(p, o.size, o.color)
                IN /\ LiveSum(reservations', k, now) = LiveSum(reservations, k, now)
                   /\ ReportedFrom(catalog', reservations', cache', now', p,
                                   o.size, o.color)
                        = ReportedStock(p, o.size, o.color)
       /\ (Decides(c)
             /\ loc[c].quantity > TrueAvailable(loc[c].productId, loc[c].size, loc[c].color))
            => /\ pc'[c] = "done" /\ res'[c].thrown
               /\ res'[c].error = "Insufficient stock"
               /\ reservations' = reservations]_vars

\* Both units of size 9 are reserved, a third was rejected, and size 10
\* reports its whole stock.
C15_Witness ==
  \E c, d \in Calls :
    /\ c < d /\ pc[c] = "done" /\ pc[d] = "done"
    /\ res[c].kind = "reserve" /\ res[c].success /\ res[c].quantity = 2
    /\ res[c].key = ReservationKey("p1", "9", Undefined)
    /\ res[d].kind = "reserve" /\ res[d].thrown /\ res[d].error = "Insufficient stock"
    /\ res[d].key = res[c].key
    /\ LiveSum(reservations, res[c].key, now) = 2
    /\ catalog["p1"].variants[2].stock = 2
    /\ ReportedStock("p1", "10", Undefined) = 2

\* The catalog has no such product, or the product is not active.
Inactive(product) == ~product.exists \/ ~product.isActive

\* What claim C16 asks of a call that returns in this step.
RefusedInactive(c) ==
  /\ pc'[c] = "done"
  /\ loc[c].op = "check" => (~res'[c].available /\ res'[c].stock = 0)
  /\ loc[c].op = "reserve" => (res'[c].thrown /\ reservations' = reservations)

\* C16: a checkAvailability that gets its answer (from the cache, or from
\* Product.findById) while the catalog has no such product or an inactive
\* one returns available = false with stock 0, and a reserveStock admits
\* nothing.
C16_InactiveNeverAvailable ==
  [][\A c \in Calls :
       /\ ( /\ pc[c] = "ca_get" /\ pc'[c] \in {"done", "rs_del"}
            /\ Inactive(catalog[loc[c].productId]) ) => RefusedInactive(c)
       /\ ( /\ pc[c] = "ca_find" /\ pc'[c] # "ca_find"
            /\ Inactive(loc[c].product) ) => RefusedInactive(c)]_vars

\* The product has a variant that the options name (or they name none).
HasVariant(product, size, color) ==
  (~Falsy(size) \/ ~Falsy(color)) =>
    \E i \in 1..Len(product.variants) : VariantMatches(product.variants[i], size, color)

\* C17: a reserveStock that fails names the cause: ProductNotFound for an
\* unknown product, ProductInactive for an inactive one, VariantNotFound
\* for options that name no variant, and insufficient stock only when the
\* product and the variant exist and are active.
C17_TypedAdmissionFailure ==
  [][\A c \in Calls :
       (Decides(c) /\ pc'[c] = "done") =>
         LET product == catalog[loc[c].productId]
         IN /\ res'[c].thrown
            /\ res'[c].error =
                 IF ~product.exists THEN "ProductNotFound"
                 ELSE IF ~product.isActive THEN "ProductInactive"
                 ELSE IF ~HasVariant(product, loc[c].size, loc[c].color)
                 THEN "VariantNotFound"
                 ELSE "Insufficient stock"]_vars

\* C18: the step in which a successful updateStock returns emits exactly
\* one outOfStock alert when the new stock of its key is <= 0, exactly one
\* lowStock alert when it is in 1..10 and none when it is above 10; no
\* other step of an updateStock, and no failing updateStock, emits an alert.
C18_AlertLevel ==
  [][\A c \in Calls :
       (loc[c].op = "update" /\ pc'[c] # pc[c]) =>
         LET out == events'.outOfStock - events.outOfStock
             low == events'.lowStock - events.lowStock
             new == loc[c].newStock
         IN IF pc[c] = "us_del"
            THEN /\ out = (IF new <= 0 THEN 1 ELSE 0)
                 /\ low = (IF new >= 1 /\ new <= 10 THEN 1 ELSE 0)
                 /\ res'[c].success
            ELSE out = 0 /\ low = 0]_vars

\* Three updates returned: one raised outOfStock, one lowStock, and one
\* left a stock above 10 and raised nothing.
C18_Witness ==
  /\ \A c \in Calls : pc[c] = "done" /\ res[c].kind = "update" /\ res[c].success
  /\ events.outOfStock = 1 /\ events.lowStock = 1 /\ events.stockUpdated = 3
  /\ \E c \in Calls : res[c].newStock > 10

\* What a call that was suspended with locals l reported once its segment
\* ran and left it at pcc with locals locc and result resc: the result of the
\* call or, for an update of a batch, the item batchUpdateStock pushed for it.
Reported(l, pcc, locc, resc) ==
  IF l.batch
  THEN (IF pcc = "done" THEN resc.results ELSE locc.results)[Len(l.results) + 1]
  ELSE resc

\* The awaits after which the registry or the catalog has been changed.
AppliedAwaits == {"rs_del", "rl_del", "us_del"}

\* C19: a throwing listener never fails the operation that triggered it:
\* when reserveStock, releaseReservation or updateStock has applied its
\* mutation and its cache delete has succeeded, the call reports success, and
\* batchUpdateStock reports that item as success, whatever the listeners do.
C19_ListenerNeverFailsOperation ==
  [][\A c \in Calls :
       (pc[c] \in AppliedAwaits /\ ~loc[c].failed /\ pc'[c] # pc[c])
         => Reported(loc[c], pc'[c], loc'[c], res'[c]).success]_vars

\* C20: a cache failure is not fatal: a call whose cache get or setex failed
\* does not throw the cache's error, and a call whose cache delete failed
\* after its mutation was applied (for reserveStock: the reservation
\* inserted, its timer set) still reports success.
C20_CacheFailureNonFatal ==
  [][\A c \in Calls :
       (loc[c].failed /\ pc'[c] # pc[c])
         => IF pc[c] \in AppliedAwaits
            THEN Reported(loc[c], pc'[c], loc'[c], res'[c]).success
            ELSE ~(pc'[c] = "done" /\ res'[c].thrown
                   /\ res'[c].error = "Cache failure")]_vars

\* C21: no update is lost: once the first two updateStock calls, both adds on
\* the same key, have completed and no third was made, the stored stock is
\* s + a + b, for s the stock the first call read and a, b the amounts the
\* two calls added (newStock - oldStock of each).
C21_NoLostUpdate ==
  (/\ pc[1] = "done" /\ pc[2] = "done" /\ pc[3] = "new"
   /\ res[1].success /\ res[2].success /\ res[1].key = res[2].key)
    => catalog["p1"].stock
         = res[1].oldStock + (res[1].newStock - res[1].oldStock)
                           + (res[2].newStock - res[2].oldStock)

\* C22: when a checkAvailability and an updateStock on the same key have run
\* interleaved and both have completed, with no other call made, the cache
\* holds nothing computed from the stock as it was before the update: what a
\* reader now gets for the key is max(0, totalStock - live reservations) of
\* the catalog and the registry as they are.
C22_NoStaleEntryAfterRace ==
  \A c, d \in {1, 2} :
    (/\ pc[1] = "done" /\ pc[2] = "done" /\ pc[3] = "new"
     /\ res[c].kind = "check" /\ ~res[c].thrown
     /\ res[d].kind = "update" /\ res[d].success
     /\ res[c].key = res[d].key)
      => \A p \in ProductIds, o \in BaseOpts :
           res[d].key = ReservationKey(p, o.size, o.color)
           => ReportedStock(p, o.size, o.color) = TrueAvailable(p, o.size, o.color)

\* C23: the stored stock of a product that has variants is the sum of the
\* stocks of its variants, whatever updateStock calls have succeeded.
C23_BaseIsSumOfVariants ==
  \A p \in ProductIds :
    (catalog[p].exists /\ catalog[p].hasVariants /\ catalog[p].variants # <<>>)
      => catalog[p].stock = SumVariantStock(catalog[p].variants)

\* C24: when an updateStock on a variant key has returned successfully, no
\* call is in flight and no call was made since, checkAvailability on the
\* base key of that product reports max(0, aggregate stock - live base-key
\* reservations) of the catalog as it is now, not a value cached before.
C24_VariantUpdateFreshensBase ==
  (/\ Made # {} /\ InFlight = {}
   /\ res[LastMade].kind = "update" /\ res[LastMade].success
   /\ res[LastMade].key # BaseKey)
    => ReportedStock("p1", Undefined, Undefined)
         = TrueAvailable("p1", Undefined, Undefined)

\* The step in which a timer callback removes the reservation id of key k.
TimerRemoves(k, id) ==
  /\ pc' = pc
  /\ timers' # timers
  /\ Holds(k, id)
  /\ ~(reservations'[k].present /\ id \in DOMAIN reservations'[k].map)

\* C25: a timer callback never removes a reservation that is still within
\* its own TTL: the reservation it removes was created at least its ttl ago,
\* as the one the timer was set for was.
C25_TimerReleasesOwnReservation ==
  [][\A k \in AllKeys, id \in Rids :
       TimerRemoves(k, id)
         => now >= reservations[k].map[id].createdAt + reservations[k].map[id].ttl]_vars

\* The errors an updateStock call with arguments l has to fail with: product
\* not found for a missing product; otherwise variant not found when it names
\* a size or color no variant of the product has (a product without a
\* variant list has none), and invalid operation for an unknown operation.
UpdateFailures(l) ==
  LET product == catalog[l.productId]
      wantsVariant == ~Falsy(l.size) \/ ~Falsy(l.color)
      idx == IF product.hasVariants
             THEN FindVariantIndex(product.variants, l.size, l.color) ELSE 0
  IN IF ~product.exists THEN {"Product not found"}
     ELSE (IF wantsVariant /\ idx = 0 THEN {"Variant not found"} ELSE {})
          \cup (IF KnownOperation(l.operation) THEN {} ELSE {"Invalid operation"})

\* C26: an updateStock that fails reports the error of its cause (product
\* not found, variant not found, invalid operation) and leaves the catalog,
\* the cache and the registry unchanged, emitting no event.
C26_FailedUpdateChangesNothing ==
  [][\A c \in Calls :
       (pc[c] = "us_find" /\ pc'[c] = "done" /\ res'[c].thrown)
         => /\ res'[c].error \in UpdateFailures(loc[c])
            /\ catalog' = catalog /\ cache' = cache
            /\ reservations' = reservations /\ events' = events]_vars

\* reserveStock call c has inserted its reservation and set its timer
\* (it is at the await of its cache delete).
HasInserted(c) == pc[c] = "rs_del"

\* C27: a reserveStock that reports a failure has inserted no reservation
\* and set no timer: it fails from a point before its insertion, and the
\* step in which it fails changes no timer and no live reservation.
C27_FailedReserveLeavesNothing ==
  [][\A c \in Calls :
       (loc[c].op = "reserve" /\ pc'[c] = "done" /\ res'[c].thrown)
         => /\ ~HasInserted(c)
            /\ timers' = timers
            /\ \A k \in AllKeys :
                 LiveMap(reservations', k, now) = LiveMap(reservations, k, now)]_vars

\* The keys, among those the callers use, that resolve to variant i of
\* product p, and the live reservations held under them.
KeysOfVariant(p, i) ==
  {ReservationKey(p, o.size, o.color) :
     o \in {x \in SizeOpts \ BaseOpts :
              catalog[p].hasVariants
              /\ FindVariantIndex(catalog[p].variants, x.size, x.color) = i}}

RECURSIVE SumLive(_)
SumLive(keys) ==
  IF keys = {} THEN 0
  ELSE LET k == CHOOSE x \in keys : TRUE
       IN LiveSum(reservations, k, now) + SumLive(keys \ {k})

\* C28: the live reservations under all the keys that resolve to one variant
\* together never exceed that variant's stock, and the live reservations
\* under the base key and under all variant keys together never exceed the
\* stock of the product.
C28_SharedRecordCountedTogether ==
  \A p \in ProductIds :
    /\ \A i \in 1..Len(catalog[p].variants) :
         SumLive(KeysOfVariant(p, i)) <= catalog[p].variants[i].stock
    /\ catalog[p].variants # <<>> =>
         SumLive({ReservationKey(p, o.size, o.color) : o \in SizeOpts})
           <= catalog[p].stock

\* C29: the stored stock of every product and of every variant is never
\* negative, whatever updateStock calls were made.
C29_StockNeverNegative ==
  \A p \in ProductIds :
    /\ catalog[p].stock >= 0
    /\ \A i \in 1..Len(catalog[p].variants) : catalog[p].variants[i].stock >= 0

\* The step in which createOrder call c decrements the stock.
Decrements(c) == pc[c] = "co_confirm" /\ pc'[c] = "done"

\* C30: a createOrder decrements the stock by its quantity only when that
\* quantity is in stock at that moment, so the stored stock never goes below
\* zero.
C30_OrdersNeverOversell ==
  [][\A c \in Calls :
       Decrements(c)
         => /\ catalog[loc[c].productId].stock >= loc[c].quantity
            /\ catalog'[loc[c].productId].stock >= 0]_vars

====
